---- MODULE Spec2Model ----
(***************************************************************************)
(* Account-lockout authentication core of Lesson-3/login/auth.py:          *)
(* AuthSystem over a JSON backing file.  One action per public operation   *)
(* of AuthSystem, plus the clock and the construction of a new engine on   *)
(* the same backing file.                                                  *)
(***************************************************************************)
EXTENDS Integers, Sequences, FiniteSets, TLC

VARIABLES
    users,          \* self.users: username -> UserAccount
    file,           \* the backing file self.storage_file
    now,            \* the value time.time() returns
    lock_duration,  \* self.lock_duration, in seconds
    ret,            \* the last operation: its arguments and what it returned
    streak,         \* history: wrong-password logins per account since its last reset
    registered,     \* history: the password each account was created with
    writer,         \* a save_users in progress: None, or what it replaces and writes
    threads         \* the calls in progress on the threads of one engine, each with
                    \* its position and local value; none outside SpecConcurrent

vars == <<users, file, now, lock_duration, ret, streak, registered, writer, threads>>

(***************************************************************************)
(* Bounds of the model.                                                    *)
(***************************************************************************)
\* the clock advances at most this many half minutes
MaxTicks == 3
\* lock_duration_minutes is drawn from 0..MaxLockMinutes
MaxLockMinutes == 1

(***************************************************************************)
(* Program constants.                                                      *)
(***************************************************************************)
\* lock_duration_minutes * 60
SecondsPerMinute == 60
\* if account.failed_attempts >= 5
Threshold == 5
\* if len(username) < 3
MinUsernameLen == 3
\* if len(password) < 6
MinPasswordLen == 6
\* the duration the lock message names: "...locked for 10 minutes"
MessageLockMinutes == 10
\* the first clock value (test_lock_expiration mocks time.time() at 1000)
StartTime == 1000

\* the clock granularity of the model: half a minute
TickStep == SecondsPerMinute \div 2

(***************************************************************************)
(* Inputs.                                                                 *)
(***************************************************************************)
\* "ab" is shorter than 3, "bob" is exactly 3 long, "admin" is a default account
Usernames == {"ab", "bob", "admin"}
\* "12345" is shorter than 6, "secret" is exactly 6 long; the default accounts keep
\* passwords outside this set ("admin123"), so "secret" is a wrong password for them
Passwords == {"12345", "secret"}

\* Optional[...]: None is the empty tuple, a value v is <<v>>
None == <<>>
Some(v) == <<v>>

\* an engine used by one caller at a time: no call is in progress on a thread
NoThreads == <<>>

(***************************************************************************)
(* Messages.  Each message of the source is a tuple: a tag for its fixed   *)
(* text followed by the numbers formatted into it.                         *)
(***************************************************************************)
\* "username already exists"
MsgUserExists == <<"username_exists">>
\* "username needs at least 3 characters"
MsgUsernameShort == <<"username_too_short", MinUsernameLen>>
\* "password needs at least 6 characters"
MsgPasswordShort == <<"password_too_short", MinPasswordLen>>
\* "user registered"
MsgRegistered == <<"register_ok">>
\* "wrong username or password"
MsgInvalid == <<"invalid_credentials">>
\* "login succeeded"
MsgLoginOk == <<"login_ok">>
\* "account is locked, retry in {m} min {s} s"
MsgLocked(m, s) == <<"locked_retry_in", m, s>>
\* "too many failed logins, account locked for 10 minutes"
MsgTooMany == <<"too_many_failures_locked_minutes", MessageLockMinutes>>
\* "wrong username or password, {n} attempts left"
MsgRemaining(n) == <<"invalid_credentials_remaining", n>>

(***************************************************************************)
(* UserAccount and the hashing primitive.                                  *)
(***************************************************************************)
UserAccount(username, password_hash, is_locked, lock_until, failed_attempts) ==
    [username |-> username, password_hash |-> password_hash,
     is_locked |-> is_locked, lock_until |-> lock_until,
     failed_attempts |-> failed_attempts]

\* hashlib.sha256(password.encode()).hexdigest(), tabulated on the passwords used
_hash_password(password) ==
    CASE password = "admin123" ->
           "240be518fabd2724ddb6f04eeb1da5967448d7e831c08c8fa822809f74c720a9"
      [] password = "password1" ->
           "0b14d501a594442a01c6859541bcb3e8164d183d32937b851835442f69d5c94e"
      [] password = "password2" ->
           "6cf615d5bcaac778352a8f1f3360d23f02f34ec182e259897fd6ce485d7870d4"
      [] password = "secret" ->
           "2bb80d537b1da3e38bd30361aa855686bde0eacd7162fef6a25fe97bf527a25b"
      [] password = "12345" ->
           "5994471abb01112afcc18159f6cc74b4f511b99806da59b3caf5a9c173cacfc5"

\* the truth value Python gives an Optional[float]: None and 0 are false
Truthy(lock_until) == lock_until /= None /\ lock_until[1] /= 0

(***************************************************************************)
(* The backing file: absent, present but not parseable as JSON, or a JSON  *)
(* object username -> {password_hash, is_locked, lock_until,               *)
(* failed_attempts}.                                                       *)
(***************************************************************************)
NoData == [u \in {} |-> None]
FileAbsent == [exists |-> FALSE, valid |-> FALSE, data |-> NoData]
FileInvalid == [exists |-> TRUE, valid |-> FALSE, data |-> NoData]

\* a slip of save_users: the failure count is not written
save_account_no_count(account) ==
    [password_hash |-> account.password_hash,
     is_locked |-> account.is_locked,
     lock_until |-> account.lock_until]

\* the dictionary save_users builds for one account
save_account(account) ==
    [password_hash |-> account.password_hash,
     is_locked |-> account.is_locked,
     lock_until |-> account.lock_until,
     failed_attempts |-> account.failed_attempts]

\* save_users: the whole mapping overwrites the file
save_users(us) ==
    [exists |-> TRUE, valid |-> TRUE,
     data |-> [u \in DOMAIN us |-> save_account(us[u])]]

\* a slip of load_users: only the digest is read, the rest takes its defaults
load_account_password_only(username, user_data) ==
    UserAccount(username, user_data.password_hash, FALSE, None, 0)

\* a slip of load_users: an entry without is_locked is taken as locked
load_account_locked_default(username, user_data) ==
    UserAccount(username,
                user_data.password_hash,
                IF "is_locked" \in DOMAIN user_data THEN user_data.is_locked ELSE TRUE,
                IF "lock_until" \in DOMAIN user_data THEN user_data.lock_until ELSE None,
                IF "failed_attempts" \in DOMAIN user_data
                    THEN user_data.failed_attempts ELSE 0)

\* the UserAccount load_users builds from one entry of the file
load_account(username, user_data) ==
    UserAccount(username,
                user_data.password_hash,
                IF "is_locked" \in DOMAIN user_data THEN user_data.is_locked ELSE FALSE,
                IF "lock_until" \in DOMAIN user_data THEN user_data.lock_until ELSE None,
                IF "failed_attempts" \in DOMAIN user_data
                    THEN user_data.failed_attempts ELSE 0)

\* the default accounts of _create_default_users
DefaultPassword(u) ==
    CASE u = "admin" -> "admin123"
      [] u = "user1" -> "password1"
      [] u = "user2" -> "password2"

DefaultUsernames == {"admin", "user1", "user2"}

_create_default_users ==
    [u \in DefaultUsernames |->
        UserAccount(u, _hash_password(DefaultPassword(u)), FALSE, None, 0)]

\* load_users, from self.users = {}: the store and the file it leaves, and whether
\* an exception leaves it.  user_data['password_hash'] raises KeyError on an entry
\* without that key, and only JSONDecodeError and FileNotFoundError are caught.
load_users(f) ==
    IF f.exists
    THEN IF f.valid
         THEN IF \E u \in DOMAIN f.data : "password_hash" \notin DOMAIN f.data[u]
              THEN [users |-> NoData, file |-> f, raised |-> TRUE]
              ELSE [users |-> [u \in DOMAIN f.data |-> load_account(u, f.data[u])],
                    file |-> f, raised |-> FALSE]
         ELSE [users |-> NoData, file |-> f, raised |-> FALSE]
    ELSE [users |-> _create_default_users,
          file |-> save_users(_create_default_users), raised |-> FALSE]

(***************************************************************************)
(* The operations, as functions of the store and the clock.  Each yields   *)
(* the store it leaves, whether it called save_users, and its return value.*)
(***************************************************************************)
Outcome(us, saved, value) == [users |-> us, saved |-> saved, value |-> value]

\* a slip of the validations: the password length test is off by one downwards
register_rejection_lax(us, username, password) ==
    IF username \in DOMAIN us THEN Some(MsgUserExists)
    ELSE IF Len(username) < MinUsernameLen THEN Some(MsgUsernameShort)
    ELSE IF Len(password) < MinPasswordLen - 1 THEN Some(MsgPasswordShort)
    ELSE None

\* a slip of the validations: <= for <, so the shortest allowed values are refused
register_rejection_strict(us, username, password) ==
    IF username \in DOMAIN us THEN Some(MsgUserExists)
    ELSE IF Len(username) <= MinUsernameLen THEN Some(MsgUsernameShort)
    ELSE IF Len(password) <= MinPasswordLen THEN Some(MsgPasswordShort)
    ELSE None

\* the first validation of register_user that fails, None when all pass
register_rejection(us, username, password) ==
    IF username \in DOMAIN us THEN Some(MsgUserExists)
    ELSE IF Len(username) < MinUsernameLen THEN Some(MsgUsernameShort)
    ELSE IF Len(password) < MinPasswordLen THEN Some(MsgPasswordShort)
    ELSE None

\* the record register_user creates
new_account(username, password) ==
    UserAccount(username, _hash_password(password), FALSE, None, 0)

\* a slip of register_user: the store is replaced by the new record
register_user_replaces(us, username, password) ==
    LET rejection == register_rejection(us, username, password) IN
    IF rejection /= None
    THEN Outcome(us, FALSE, <<FALSE, rejection[1]>>)
    ELSE Outcome([u \in {username} |-> new_account(username, password)],
                 TRUE, <<TRUE, MsgRegistered>>)

register_user(us, username, password) ==
    LET rejection == register_rejection(us, username, password) IN
    IF rejection /= None
    THEN Outcome(us, FALSE, <<FALSE, rejection[1]>>)
    ELSE Outcome([u \in DOMAIN us \cup {username} |->
                    IF u = username THEN new_account(username, password) ELSE us[u]],
                 TRUE, <<TRUE, MsgRegistered>>)

\* a slip of the expiry test: the comparison reversed
lock_pending_reversed(account, current_time) == account.lock_until[1] < current_time

\* a slip of the expiry test: the lock still holds at lock_until itself
lock_pending_inclusive(account, current_time) == current_time <= account.lock_until[1]

\* a slip of the expiry test: a lock never runs out
lock_pending_forever(account, current_time) == account.lock_until[1] > 0

\* if current_time < account.lock_until
lock_pending(account, current_time) == current_time < account.lock_until[1]

\* a slip of the expiry: the failure count is not reset
expire_lock_keeps_count(us, username) ==
    Outcome([us EXCEPT ![username].is_locked = FALSE,
                       ![username].lock_until = None],
            TRUE, <<FALSE, None>>)

\* a slip of the expiry: the deadline is left in place
expire_lock_keeps_deadline(us, username) ==
    Outcome([us EXCEPT ![username].is_locked = FALSE,
                       ![username].failed_attempts = 0],
            TRUE, <<FALSE, None>>)

\* a slip of the expiry: the record is changed but not saved
expire_lock_unsaved(us, username) ==
    Outcome([us EXCEPT ![username].is_locked = FALSE,
                       ![username].lock_until = None,
                       ![username].failed_attempts = 0],
            FALSE, <<FALSE, None>>)

\* the lock has run out: the account is unlocked and saved
expire_lock(us, username) ==
    Outcome([us EXCEPT ![username].is_locked = FALSE,
                       ![username].lock_until = None,
                       ![username].failed_attempts = 0],
            TRUE, <<FALSE, None>>)

\* the message of a pending lock: minutes and seconds left
lock_message(account, current_time) ==
    LET remaining_seconds == account.lock_until[1] - current_time IN
    MsgLocked(remaining_seconds \div SecondsPerMinute,
              remaining_seconds % SecondsPerMinute)

check_lock_status(us, username, current_time) ==
    IF username \notin DOMAIN us
    THEN Outcome(us, FALSE, <<FALSE, None>>)
    ELSE LET account == us[username] IN
         IF account.is_locked /\ Truthy(account.lock_until)
         THEN IF lock_pending(account, current_time)
              THEN Outcome(us, FALSE, <<TRUE, Some(lock_message(account, current_time))>>)
              ELSE expire_lock(us, username)
         ELSE Outcome(us, FALSE, <<FALSE, None>>)

\* a slip of the threshold test: > for >=
reached_threshold_strict(failed_attempts) == failed_attempts > Threshold

\* if account.failed_attempts >= 5
reached_threshold(failed_attempts) == failed_attempts >= Threshold

\* a slip of the remaining count: computed as if the failure were not yet counted
remaining_attempts_stale(failed_attempts) == Threshold - failed_attempts + 1

\* remaining_attempts = 5 - account.failed_attempts
remaining_attempts(failed_attempts) == Threshold - failed_attempts

\* account.lock_until = time.time() + self.lock_duration
lock_deadline(current_time, duration) == Some(current_time + duration)

\* a slip of the success path: the reset is not saved
login_success_unsaved(us, username) ==
    Outcome([us EXCEPT ![username].failed_attempts = 0], FALSE, <<TRUE, MsgLoginOk>>)

\* a slip of the success path: the failure count is kept
login_success_keeps_count(us, username) ==
    Outcome(us, TRUE, <<TRUE, MsgLoginOk>>)

\* the password matches: the failure count is reset and saved
login_success(us, username) ==
    Outcome([us EXCEPT ![username].failed_attempts = 0], TRUE, <<TRUE, MsgLoginOk>>)

\* the password does not match: the failure is counted, the account locked at the
\* threshold, and the store saved
login_failure(us, username, current_time, duration) ==
    LET failed == us[username].failed_attempts + 1 IN
    IF reached_threshold(failed)
    THEN Outcome([us EXCEPT ![username].failed_attempts = failed,
                            ![username].is_locked = TRUE,
                            ![username].lock_until =
                                lock_deadline(current_time, duration)],
                 TRUE, <<FALSE, MsgTooMany>>)
    ELSE Outcome([us EXCEPT ![username].failed_attempts = failed],
                 TRUE, <<FALSE, MsgRemaining(remaining_attempts(failed))>>)

\* a slip of login: the lock check is left out
login_ignores_lock(us, username, password, current_time, duration) ==
    IF username \notin DOMAIN us
    THEN Outcome(us, FALSE, <<FALSE, MsgInvalid>>)
    ELSE IF _hash_password(password) = us[username].password_hash
         THEN login_success(us, username)
         ELSE login_failure(us, username, current_time, duration)

login(us, username, password, current_time, duration) ==
    IF username \notin DOMAIN us
    THEN Outcome(us, FALSE, <<FALSE, MsgInvalid>>)
    ELSE LET c == check_lock_status(us, username, current_time) IN
         IF c.value[1]
         THEN Outcome(c.users, c.saved, <<FALSE, c.value[2][1]>>)
         ELSE IF _hash_password(password) = c.users[username].password_hash
              THEN login_success(c.users, username)
              ELSE login_failure(c.users, username, current_time, duration)

\* a slip of unlock_account: the deadline is left in place
unlock_account_keeps_deadline(us, username) ==
    IF username \in DOMAIN us
    THEN Outcome([us EXCEPT ![username].is_locked = FALSE,
                            ![username].failed_attempts = 0],
                 TRUE, TRUE)
    ELSE Outcome(us, FALSE, FALSE)

\* a slip of unlock_account: it reports whether there was anything to unlock
unlock_account_if_locked(us, username) ==
    IF username \in DOMAIN us
    THEN Outcome([us EXCEPT ![username].is_locked = FALSE,
                            ![username].lock_until = None,
                            ![username].failed_attempts = 0],
                 TRUE, us[username].is_locked \/ us[username].failed_attempts > 0)
    ELSE Outcome(us, FALSE, FALSE)

unlock_account(us, username) ==
    IF username \in DOMAIN us
    THEN Outcome([us EXCEPT ![username].is_locked = FALSE,
                            ![username].lock_until = None,
                            ![username].failed_attempts = 0],
                 TRUE, TRUE)
    ELSE Outcome(us, FALSE, FALSE)

\* a slip of get_user_info: the failure count is read before the lock evaluation
get_user_info_stale(us, username, current_time) ==
    IF username \in DOMAIN us
    THEN LET c == check_lock_status(us, username, current_time) IN
         Outcome(c.users, c.saved,
                 Some([username |-> c.users[username].username,
                       is_locked |-> c.value[1],
                       failed_attempts |-> us[username].failed_attempts,
                       lock_message |-> c.value[2]]))
    ELSE Outcome(us, FALSE, None)

get_user_info(us, username, current_time) ==
    IF username \in DOMAIN us
    THEN LET c == check_lock_status(us, username, current_time) IN
         Outcome(c.users, c.saved,
                 Some([username |-> c.users[username].username,
                       is_locked |-> c.value[1],
                       failed_attempts |-> c.users[username].failed_attempts,
                       lock_message |-> c.value[2]]))
    ELSE Outcome(us, FALSE, None)

(***************************************************************************)
(* The state machine.                                                      *)
(***************************************************************************)
\* account u of store us is locked and its lock has not run out at time t
LockedAt(us, u, t) ==
    /\ u \in DOMAIN us
    /\ us[u].is_locked
    /\ us[u].lock_until /= None
    /\ t < us[u].lock_until[1]

\* account u of store us is locked and its lock ran out at or before time t
ExpiredAt(us, u, t) ==
    /\ u \in DOMAIN us
    /\ us[u].is_locked
    /\ us[u].lock_until /= None
    /\ us[u].lock_until[1] <= t

\* the record a call finds under username, None when there is none
Found(username) == IF username \in DOMAIN users THEN Some(users[username]) ELSE None

\* what ret records of a call: operation, arguments, success flag, message, info,
\* whether the call wrote the backing file, and the record it found
Call(op, username, password, ok, message, info, saved) ==
    [op |-> op, username |-> username, password |-> password,
     ok |-> ok, message |-> message, info |-> info, saved |-> saved,
     found |-> Found(username)]

\* the file after an operation: rewritten when the operation called save_users
Persist(r) == IF r.saved THEN save_users(r.users) ELSE file

Smaller(a, b) == IF a < b THEN a ELSE b

\* AuthSystem(storage_file, lock_duration_minutes) on an absent file or on a file
\* that holds no JSON (the empty temporary file of the tests)
Init ==
    \E minutes \in 0..MaxLockMinutes, f \in {FileAbsent, FileInvalid} :
        LET l == load_users(f) IN
        /\ lock_duration = minutes * SecondsPerMinute
        /\ users = l.users
        /\ file = l.file
        /\ now = StartTime
        /\ ret = Call("init", "", "", TRUE, None, None, ~f.exists)
        /\ streak = [u \in DOMAIN l.users |-> 0]
        /\ registered = [u \in DOMAIN l.users |-> DefaultPassword(u)]
        /\ writer = None
        /\ threads = NoThreads

Register(username, password) ==
    LET r == register_user(users, username, password) IN
    /\ users' = r.users
    /\ file' = Persist(r)
    /\ ret' = Call("register_user", username, password,
                   r.value[1], Some(r.value[2]), None, r.saved)
    /\ streak' = IF r.value[1]
                 THEN [u \in DOMAIN r.users |-> IF u = username THEN 0 ELSE streak[u]]
                 ELSE streak
    /\ registered' = IF r.value[1]
                     THEN [u \in DOMAIN r.users |->
                              IF u = username THEN password ELSE registered[u]]
                     ELSE registered
    /\ UNCHANGED <<now, lock_duration, writer, threads>>

CheckLockStatus(username) ==
    LET r == check_lock_status(users, username, now) IN
    /\ users' = r.users
    /\ file' = Persist(r)
    /\ ret' = Call("check_lock_status", username, "", r.value[1], r.value[2], None,
                   r.saved)
    /\ streak' = IF ExpiredAt(users, username, now)
                 THEN [streak EXCEPT ![username] = 0]
                 ELSE streak
    /\ UNCHANGED <<now, lock_duration, registered, writer, threads>>

Login(username, password) ==
    LET r == login(users, username, password, now, lock_duration)
        expired == ExpiredAt(users, username, now)
    IN
    /\ users' = r.users
    /\ file' = Persist(r)
    /\ ret' = Call("login", username, password, r.value[1], Some(r.value[2]), None,
                   r.saved)
    /\ streak' =
         IF username \notin DOMAIN users THEN streak
         ELSE LET base == IF expired THEN 0 ELSE streak[username] IN
              [streak EXCEPT ![username] =
                  IF r.value[1] THEN 0
                  ELSE IF password /= registered[username]
                       THEN Smaller(base + 1, Threshold + 1)
                       ELSE base]
    /\ UNCHANGED <<now, lock_duration, registered, writer, threads>>

UnlockAccount(username) ==
    LET r == unlock_account(users, username) IN
    /\ users' = r.users
    /\ file' = Persist(r)
    /\ ret' = Call("unlock_account", username, "", r.value, None, None, r.saved)
    /\ streak' = IF r.value THEN [streak EXCEPT ![username] = 0] ELSE streak
    /\ UNCHANGED <<now, lock_duration, registered, writer, threads>>

GetUserInfo(username) ==
    LET r == get_user_info(users, username, now) IN
    /\ users' = r.users
    /\ file' = Persist(r)
    /\ ret' = Call("get_user_info", username, "", r.value /= None, None, r.value,
                   r.saved)
    /\ streak' = IF ExpiredAt(users, username, now)
                 THEN [streak EXCEPT ![username] = 0]
                 ELSE streak
    /\ UNCHANGED <<now, lock_duration, registered, writer, threads>>

\* a slip of the design: a timer unlocks the records whose lock has run out
TickExpires ==
    /\ now + TickStep <= StartTime + MaxTicks * TickStep
    /\ now' = now + TickStep
    /\ users' = [u \in DOMAIN users |->
                    IF ExpiredAt(users, u, now + TickStep)
                    THEN [users[u] EXCEPT !.is_locked = FALSE, !.lock_until = None,
                                          !.failed_attempts = 0]
                    ELSE users[u]]
    /\ file' = file
    /\ ret' = Call("tick", "", "", TRUE, None, None, FALSE)
    /\ UNCHANGED <<lock_duration, streak, registered, writer, threads>>

\* time passes
Tick ==
    /\ now + TickStep <= StartTime + MaxTicks * TickStep
    /\ now' = now + TickStep
    /\ ret' = Call("tick", "", "", TRUE, None, None, FALSE)
    /\ UNCHANGED <<users, file, lock_duration, streak, registered, writer, threads>>

\* a new AuthSystem is constructed on the same backing file
Restart ==
    LET l == load_users(file) IN
    /\ ~l.raised
    /\ users' = l.users
    /\ file' = l.file
    /\ ret' = Call("restart", "", "", TRUE, None, None, ~file.exists)
    /\ UNCHANGED <<now, lock_duration, streak, registered, writer, threads>>

Next ==
    \/ \E username \in Usernames, password \in Passwords : Register(username, password)
    \/ \E username \in Usernames : CheckLockStatus(username)
    \/ \E username \in Usernames, password \in Passwords : Login(username, password)
    \/ \E username \in Usernames : UnlockAccount(username)
    \/ \E username \in Usernames : GetUserInfo(username)
    \/ Tick
    \/ Restart

Spec == Init /\ [][Next]_vars

(***************************************************************************)
(* Construction alone, on backing files of every shape: absent, holding no *)
(* JSON, or a JSON object with one entry that has any subset of the four   *)
(* keys.                                                                   *)
(***************************************************************************)
EntryKeys == {"password_hash", "is_locked", "lock_until", "failed_attempts"}

\* the values an entry of the file may give its keys
EntryValues ==
    [password_hash : {_hash_password("secret")},
     is_locked : BOOLEAN,
     lock_until : {None, Some(StartTime + SecondsPerMinute)},
     failed_attempts : {0, Threshold - 2}]

FileEntries == {[k \in K |-> v[k]] : K \in SUBSET EntryKeys, v \in EntryValues}

FileInputs ==
    {FileAbsent, FileInvalid}
        \cup {[exists |-> TRUE, valid |-> TRUE, data |-> [u \in {"bob"} |-> e]] :
                 e \in FileEntries}

\* a backing file lies on disk and no engine has been constructed yet
InitLoad ==
    \E minutes \in 0..MaxLockMinutes, f \in FileInputs :
        /\ lock_duration = minutes * SecondsPerMinute
        /\ users = NoData
        /\ file = f
        /\ now = StartTime
        /\ ret = Call("boot", "", "", TRUE, None, None, FALSE)
        /\ streak = NoData
        /\ registered = NoData
        /\ writer = None
        /\ threads = NoThreads

\* AuthSystem(storage_file, lock_duration_minutes): load_users on the file; an
\* exception that leaves load_users leaves __init__, and there is no engine
Construct ==
    LET l == load_users(file) IN
    /\ ret.op = "boot"
    /\ users' = l.users
    /\ file' = l.file
    /\ ret' = Call("construct", "", "", ~l.raised,
                   IF l.raised THEN Some(<<"KeyError", "password_hash">>) ELSE None,
                   None, ~file.exists)
    /\ streak' = [u \in DOMAIN l.users |-> 0]
    /\ registered' = [u \in DOMAIN l.users |->
                         IF file.exists THEN "secret" ELSE DefaultPassword(u)]
    /\ UNCHANGED <<now, lock_duration, writer, threads>>

NextLoad == Construct

SpecLoad == InitLoad /\ [][NextLoad]_vars

(***************************************************************************)
(* save_users step by step, with a reader of the same file beside it:      *)
(* open(storage_file, 'w') empties the file, json.dump writes the text     *)
(* piece by piece, and leaving the with block closes it.                   *)
(***************************************************************************)
\* the file between open(..., 'w') and the last piece: no complete JSON text
FilePartial == [exists |-> TRUE, valid |-> FALSE, data |-> NoData]

\* the stores that register_user, login and unlock_account hand to save_users
SavedStores(username, password) ==
    LET a == register_user(users, username, password)
        b == login(users, username, password, now, lock_duration)
        c == unlock_account(users, username)
    IN (IF a.saved THEN {a.users} ELSE {})
           \cup (IF b.saved THEN {b.users} ELSE {})
           \cup (IF c.saved THEN {c.users} ELSE {})

\* an operation has changed the store and save_users opens the file for writing
BeginSave ==
    /\ writer = None
    /\ \E username \in Usernames, password \in Passwords :
         \E us \in SavedStores(username, password) :
            /\ users' = us
            /\ writer' = Some([old |-> file, new |-> save_users(us), written |-> 0])
    /\ file' = FilePartial
    /\ ret' = Call("save_users", "", "", TRUE, None, None, FALSE)
    /\ UNCHANGED <<now, lock_duration, streak, registered, threads>>

\* json.dump writes the next record
WriteRecord ==
    /\ writer /= None
    /\ writer[1].written < Cardinality(DOMAIN writer[1].new.data)
    /\ writer' = Some([writer[1] EXCEPT !.written = @ + 1])
    /\ file' = FilePartial
    /\ ret' = Call("save_users", "", "", TRUE, None, None, FALSE)
    /\ UNCHANGED <<users, now, lock_duration, streak, registered, threads>>

\* the closing brace is written and the file closed
FinishSave ==
    /\ writer /= None
    /\ writer[1].written = Cardinality(DOMAIN writer[1].new.data)
    /\ file' = writer[1].new
    /\ writer' = None
    /\ ret' = Call("save_users", "", "", TRUE, None, None, TRUE)
    /\ UNCHANGED <<users, now, lock_duration, streak, registered, threads>>

\* another engine is constructed on the file: its load_users reads what is there
ConcurrentLoad ==
    LET l == load_users(file) IN
    /\ ret' = Call("load_users", "", "", ~l.raised, None,
                   Some([content |-> file, users |-> l.users]), FALSE)
    /\ UNCHANGED <<users, file, now, lock_duration, streak, registered, writer, threads>>

NextWrite ==
    \/ BeginSave
    \/ WriteRecord
    \/ FinishSave
    \/ ConcurrentLoad

SpecWrite == Init /\ [][NextWrite]_vars

(***************************************************************************)
(* The engine on a backing file that can no longer be written: it was      *)
(* constructed while the file could be written, and from then on           *)
(* open(storage_file, 'w') raises OSError.  No operation catches it, so it *)
(* leaves the operation at its first save_users call, after the change to  *)
(* the record in memory.  The history variables are not kept here.         *)
(***************************************************************************)
\* the exception that leaves save_users, in place of a message
SaveError == <<"OSError">>

\* what ret records of a call that reached save_users (outcome r), and of one
\* that returned
Surfaced(op, username, password, r, ok, message, info) ==
    IF r.saved
    THEN Call(op, username, password, FALSE, Some(SaveError), None, FALSE)
    ELSE Call(op, username, password, ok, message, info, FALSE)

\* login up to its first save_users call: the one of check_lock_status when the
\* lock has run out, else its own
login_to_first_save(us, username, password, current_time, duration) ==
    LET c == check_lock_status(us, username, current_time) IN
    IF c.saved
    THEN Outcome(c.users, TRUE, <<c.value[1], MsgInvalid>>)
    ELSE login(us, username, password, current_time, duration)

RegisterUnwritable(username, password) ==
    LET r == register_user(users, username, password) IN
    /\ users' = r.users
    /\ ret' = Surfaced("register_user", username, password, r,
                       r.value[1], Some(r.value[2]), None)
    /\ UNCHANGED <<file, now, lock_duration, streak, registered, writer, threads>>

CheckLockStatusUnwritable(username) ==
    LET r == check_lock_status(users, username, now) IN
    /\ users' = r.users
    /\ ret' = Surfaced("check_lock_status", username, "", r,
                       r.value[1], r.value[2], None)
    /\ UNCHANGED <<file, now, lock_duration, streak, registered, writer, threads>>

LoginUnwritable(username, password) ==
    LET r == login_to_first_save(users, username, password, now, lock_duration) IN
    /\ users' = r.users
    /\ ret' = Surfaced("login", username, password, r,
                       r.value[1], Some(r.value[2]), None)
    /\ UNCHANGED <<file, now, lock_duration, streak, registered, writer, threads>>

UnlockAccountUnwritable(username) ==
    LET r == unlock_account(users, username) IN
    /\ users' = r.users
    /\ ret' = Surfaced("unlock_account", username, "", r, r.value, None, None)
    /\ UNCHANGED <<file, now, lock_duration, streak, registered, writer, threads>>

NextUnwritable ==
    \/ \E username \in Usernames, password \in Passwords :
          RegisterUnwritable(username, password)
    \/ \E username \in Usernames : CheckLockStatusUnwritable(username)
    \/ \E username \in Usernames, password \in Passwords :
          LoginUnwritable(username, password)
    \/ \E username \in Usernames : UnlockAccountUnwritable(username)
    \/ Tick

SpecUnwritable == Init /\ [][NextUnwritable]_vars

(***************************************************************************)
(* Two threads call one engine on the same identifier.  The source takes   *)
(* no lock, so a thread may be suspended between any two reads or writes   *)
(* of a record's attributes: account.failed_attempts += 1 is a read and a  *)
(* write, and is_locked and lock_until are written by separate statements. *)
(* check_lock_status and save_users are taken as single steps.  The clock  *)
(* stands still and the history variables are not kept here.               *)
(***************************************************************************)
Threads == {1, 2}

\* the identifier both threads work on, registered with RacedPassword
Raced == "bob"
RacedPassword == "secret"

\* the calls a thread may make
ThreadCalls ==
    {[op |-> "login", password |-> p] : p \in Passwords}
        \cup {[op |-> "unlock_account", password |-> ""]}

\* a call at its first statement: local is the value read for += 1, value the
\* return value once decided, origin the store the call was started on
StartCall(call, us) ==
    [op |-> call.op, password |-> call.password,
     pc |-> IF call.op = "login" THEN "check" ELSE "unlock_flag",
     local |-> 0, value |-> <<FALSE, None>>, origin |-> us]

\* one engine holding the account with some failures counted, and two calls
InitConcurrent ==
    \E minutes \in 0..MaxLockMinutes, failed \in 0..(Threshold - 1),
       first \in ThreadCalls, second \in ThreadCalls :
        LET us == [u \in {Raced} |->
                      UserAccount(u, _hash_password(RacedPassword), FALSE, None, failed)]
        IN
        /\ lock_duration = minutes * SecondsPerMinute
        /\ users = us
        /\ file = save_users(us)
        /\ now = StartTime
        /\ ret = Call("init", "", "", TRUE, None, None, FALSE)
        /\ streak = [u \in {Raced} |-> failed]
        /\ registered = [u \in {Raced} |-> RacedPassword]
        /\ writer = None
        /\ threads = [t \in Threads |-> StartCall(IF t = 1 THEN first ELSE second, us)]

\* thread t moves to pc, leaving the rest of its call as it is
Goto(t, pc) == threads' = [threads EXCEPT ![t].pc = pc]

\* login: is_locked, lock_message = self.check_lock_status(username)
LoginCheck(t) ==
    LET c == check_lock_status(users, Raced, now) IN
    /\ threads[t].pc = "check"
    /\ users' = c.users
    /\ file' = Persist(c)
    /\ IF c.value[1]
       THEN /\ threads' = [threads EXCEPT ![t].pc = "done",
                                          ![t].value = <<FALSE, c.value[2][1]>>]
            /\ ret' = Call("login", Raced, threads[t].password, FALSE,
                           Some(c.value[2][1]), None, c.saved)
       ELSE /\ Goto(t, "verify")
            /\ UNCHANGED ret
    /\ UNCHANGED <<now, lock_duration, streak, registered, writer>>

\* login: if password_hash == account.password_hash, and the reset on success
LoginVerify(t) ==
    /\ threads[t].pc = "verify"
    /\ IF _hash_password(threads[t].password) = users[Raced].password_hash
       THEN /\ users' = [users EXCEPT ![Raced].failed_attempts = 0]
            /\ threads' = [threads EXCEPT ![t].pc = "save",
                                          ![t].value = <<TRUE, MsgLoginOk>>]
       ELSE /\ Goto(t, "load")
            /\ UNCHANGED users
    /\ UNCHANGED <<file, now, lock_duration, ret, streak, registered, writer>>

\* account.failed_attempts += 1: the attribute is read
LoginLoad(t) ==
    /\ threads[t].pc = "load"
    /\ threads' = [threads EXCEPT ![t].pc = "store",
                                  ![t].local = users[Raced].failed_attempts]
    /\ UNCHANGED <<users, file, now, lock_duration, ret, streak, registered, writer>>

\* account.failed_attempts += 1: the sum is written
LoginStore(t) ==
    /\ threads[t].pc = "store"
    /\ users' = [users EXCEPT ![Raced].failed_attempts = threads[t].local + 1]
    /\ Goto(t, "threshold")
    /\ UNCHANGED <<file, now, lock_duration, ret, streak, registered, writer>>

\* if account.failed_attempts >= 5: account.is_locked = True; else the message
LoginThreshold(t) ==
    /\ threads[t].pc = "threshold"
    /\ IF reached_threshold(users[Raced].failed_attempts)
       THEN /\ users' = [users EXCEPT ![Raced].is_locked = TRUE]
            /\ threads' = [threads EXCEPT ![t].pc = "stamp",
                                          ![t].value = <<FALSE, MsgTooMany>>]
       ELSE /\ threads' = [threads EXCEPT
                              ![t].pc = "save",
                              ![t].value =
                                  <<FALSE, MsgRemaining(remaining_attempts(
                                               users[Raced].failed_attempts))>>]
            /\ UNCHANGED users
    /\ UNCHANGED <<file, now, lock_duration, ret, streak, registered, writer>>

\* account.lock_until = time.time() + self.lock_duration
LoginStamp(t) ==
    /\ threads[t].pc = "stamp"
    /\ users' = [users EXCEPT ![Raced].lock_until = lock_deadline(now, lock_duration)]
    /\ Goto(t, "save")
    /\ UNCHANGED <<file, now, lock_duration, ret, streak, registered, writer>>

\* unlock_account: account.is_locked = False
UnlockFlag(t) ==
    /\ threads[t].pc = "unlock_flag"
    /\ users' = [users EXCEPT ![Raced].is_locked = FALSE]
    /\ Goto(t, "unlock_until")
    /\ UNCHANGED <<file, now, lock_duration, ret, streak, registered, writer>>

\* unlock_account: account.lock_until = None
UnlockUntil(t) ==
    /\ threads[t].pc = "unlock_until"
    /\ users' = [users EXCEPT ![Raced].lock_until = None]
    /\ Goto(t, "unlock_count")
    /\ UNCHANGED <<file, now, lock_duration, ret, streak, registered, writer>>

\* unlock_account: account.failed_attempts = 0
UnlockCount(t) ==
    /\ threads[t].pc = "unlock_count"
    /\ users' = [users EXCEPT ![Raced].failed_attempts = 0]
    /\ threads' = [threads EXCEPT ![t].pc = "save", ![t].value = <<TRUE, None>>]
    /\ UNCHANGED <<file, now, lock_duration, ret, streak, registered, writer>>

\* self.save_users() and the return
ThreadSave(t) ==
    /\ threads[t].pc = "save"
    /\ file' = save_users(users)
    /\ Goto(t, "done")
    /\ ret' = Call(threads[t].op, Raced, threads[t].password, threads[t].value[1],
                   IF threads[t].op = "login" THEN Some(threads[t].value[2]) ELSE None,
                   None, TRUE)
    /\ UNCHANGED <<users, now, lock_duration, streak, registered, writer>>

NextConcurrent ==
    \/ \E t \in Threads : LoginCheck(t)
    \/ \E t \in Threads : LoginVerify(t)
    \/ \E t \in Threads : LoginLoad(t)
    \/ \E t \in Threads : LoginStore(t)
    \/ \E t \in Threads : LoginThreshold(t)
    \/ \E t \in Threads : LoginStamp(t)
    \/ \E t \in Threads : UnlockFlag(t)
    \/ \E t \in Threads : UnlockUntil(t)
    \/ \E t \in Threads : UnlockCount(t)
    \/ \E t \in Threads : ThreadSave(t)

SpecConcurrent == InitConcurrent /\ [][NextConcurrent]_vars

(***************************************************************************)
(* Vocabulary of the properties.                                           *)
(***************************************************************************)
\* the last operation was login(u, password)
LoggedIn(r, u) == r.op = "login" /\ r.username = u

\* the last operation was login on the existing account u with a password other
\* than the one u was created with
WrongLogin(u) ==
    /\ u \in DOMAIN users
    /\ LoggedIn(ret, u)
    /\ ret.password /= registered[u]

\* the record is unlocked with no deadline and no counted failure
Cleared(account) ==
    /\ account.is_locked = FALSE
    /\ account.lock_until = None
    /\ account.failed_attempts = 0

\* the backing file holds store us, record for record
FileHolds(f, us) ==
    /\ f.exists /\ f.valid
    /\ DOMAIN f.data = DOMAIN us
    /\ \A u \in DOMAIN us :
        /\ f.data[u].password_hash = us[u].password_hash
        /\ f.data[u].is_locked = us[u].is_locked
        /\ f.data[u].lock_until = us[u].lock_until
        /\ f.data[u].failed_attempts = us[u].failed_attempts

(***************************************************************************)
(* Properties.                                                             *)
(***************************************************************************)
\* C1: the 5th consecutive wrong-password login on an account that started
\* unlocked with no counted failure leaves it locked with failed_attempts = 5 and
\* lock_until = the time of that login + the lock duration, and returns failure.
C1_FifthFailureLocks ==
    \A u \in DOMAIN users :
        (WrongLogin(u) /\ streak[u] = 5) =>
            /\ users[u].is_locked = TRUE
            /\ users[u].failed_attempts = 5
            /\ users[u].lock_until = <<now + lock_duration>>
            /\ ret.ok = FALSE

C1_Witness ==
    \E u \in DOMAIN users :
        /\ WrongLogin(u) /\ streak[u] = 5
        /\ lock_duration > 0
        /\ now > StartTime

\* C2: while an account is locked and the clock is before lock_until, login on it
\* fails with the lock message for every password, the correct one included.
C2_LockedLoginRefused ==
    [][\A u \in Usernames :
          (LockedAt(users, u, now) /\ LoggedIn(ret', u)) =>
              /\ ret'.ok = FALSE
              /\ ret'.message /= None
              /\ ret'.message[1][1] = "locked_retry_in"]_vars

C2_Witness ==
    \E u \in DOMAIN users :
        /\ LoggedIn(ret, u)
        /\ ret.password = registered[u]
        /\ LockedAt(users, u, now)
        /\ ret.message[1][1] = "locked_retry_in"

\* C3: for 1 <= N < 5, after N consecutive wrong-password logins on a fresh
\* account the record has failed_attempts = N and is unlocked, and the N-th login
\* fails with a message reporting 5 - N remaining attempts.
C3_FailuresCounted ==
    \A u \in DOMAIN users : \A N \in 1..4 :
        (WrongLogin(u) /\ streak[u] = N) =>
            /\ users[u].failed_attempts = N
            /\ users[u].is_locked = FALSE
            /\ ret.ok = FALSE
            /\ ret.message = <<MsgRemaining(5 - N)>>

C3_Witness ==
    \E u \in DOMAIN users :
        /\ WrongLogin(u) /\ streak[u] = 4
        /\ users[u].failed_attempts = 4

\* C4: on an existing account that is not currently locked, login succeeds if and
\* only if the password is the one the account was created with; a successful
\* login leaves failed_attempts = 0, is_locked false, lock_until unset, and the
\* store persisted.
C4_LoginSucceedsIffPassword ==
    [][\A u \in DOMAIN users :
          (~LockedAt(users, u, now) /\ LoggedIn(ret', u)) =>
              /\ ret'.ok = (ret'.password = registered[u])
              /\ ret'.ok => /\ Cleared(users'[u])
                            /\ FileHolds(file', users')]_vars

C4_Witness ==
    \E u \in DOMAIN users :
        /\ LoggedIn(ret, u) /\ ret.ok
        /\ ret.password = registered[u]
        /\ now > StartTime

\* C5: check_lock_status on a locked record whose lock_until is at or before the
\* current time returns (false, none) and leaves the record unlocked with
\* lock_until none and failed_attempts 0, in memory and in the file.
C5_ExpiryUnlocks ==
    [][\A u \in Usernames :
          (/\ ExpiredAt(users, u, now)
           /\ ret'.op = "check_lock_status" /\ ret'.username = u) =>
              /\ ret'.ok = FALSE
              /\ ret'.message = None
              /\ Cleared(users'[u])
              /\ FileHolds(file', users')]_vars

C5_Witness ==
    \E u \in DOMAIN users :
        /\ ret.op = "check_lock_status" /\ ret.username = u
        /\ ret.saved
        /\ ret.ok = FALSE
        /\ Cleared(users[u])
        /\ lock_duration > 0

\* account u of store us is locked and its lock_until lies in the past at time t
PastAt(us, u, t) ==
    /\ u \in DOMAIN us
    /\ us[u].is_locked
    /\ us[u].lock_until /= None
    /\ us[u].lock_until[1] < t

\* C6, as stated: login on a record whose lock_until is in the past leaves it,
\* for any password, with is_locked = false and failed_attempts = 0 (read here
\* for positive lock durations only, where it already fails).
C6_AsStated ==
    [][\A u \in Usernames :
          (lock_duration > 0 /\ PastAt(users, u, now) /\ LoggedIn(ret', u)) =>
              /\ users'[u].is_locked = FALSE
              /\ users'[u].failed_attempts = 0]_vars

\* C6, amended: login on a record whose lock_until is in the past leaves it with
\* is_locked = false for any password, and with failed_attempts = 0 when the
\* password is the account's, 1 when it is not (the failure counted on the
\* unlocked record).
C6_ExpiredLoginUnlocks ==
    [][\A u \in Usernames :
          (PastAt(users, u, now) /\ LoggedIn(ret', u)) =>
              /\ users'[u].is_locked = FALSE
              /\ users'[u].lock_until = None
              /\ users'[u].failed_attempts =
                    IF ret'.password = registered[u] THEN 0 ELSE 1]_vars

C6_Witness ==
    \E u \in DOMAIN users :
        /\ LoggedIn(ret, u)
        /\ ret.found /= None
        /\ ret.found[1].is_locked
        /\ ret.found[1].lock_until[1] < now
        /\ ret.password /= registered[u]
        /\ users[u].failed_attempts = 1

\* C7: unlock_account on an existing identifier, whatever its state, leaves the
\* record unlocked with lock_until none and failed_attempts 0, persists and
\* returns true; on an unknown identifier it returns false and changes neither
\* the store in memory nor the file.
C7_UnlockForces ==
    [][\A u \in Usernames :
          (ret'.op = "unlock_account" /\ ret'.username = u) =>
              IF u \in DOMAIN users
              THEN /\ ret'.ok = TRUE
                   /\ Cleared(users'[u])
                   /\ FileHolds(file', users')
              ELSE /\ ret'.ok = FALSE
                   /\ users' = users
                   /\ file' = file]_vars

C7_Witness ==
    \E u \in DOMAIN users :
        /\ ret.op = "unlock_account" /\ ret.username = u
        /\ ret.ok
        /\ ret.found[1].is_locked
        /\ now < ret.found[1].lock_until[1]
        /\ Cleared(users[u])

\* C8: unlock_account is idempotent: a second call right after a call on the same
\* identifier changes neither the store nor the file and returns what the first
\* returned; and a call on an unlocked account with failed_attempts = 0 leaves the
\* store and the file as they were.
C8_UnlockIdempotent ==
    [][\A u \in Usernames :
          (ret'.op = "unlock_account" /\ ret'.username = u) =>
              /\ (ret.op = "unlock_account" /\ ret.username = u) =>
                    /\ users' = users
                    /\ file' = file
                    /\ ret'.ok = ret.ok
              /\ (u \in DOMAIN users /\ Cleared(users[u])) =>
                    /\ users' = users
                    /\ file' = file]_vars

\* a second unlock_account in a row on an existing account
C8_Witness ==
    \E u \in DOMAIN users :
        /\ ret.op = "unlock_account" /\ ret.username = u
        /\ ret.ok
        /\ Cleared(ret.found[1])
        /\ streak[u] = 0
        /\ now > StartTime

\* C9: register_user fails and leaves the store and the file unchanged when the
\* identifier is already present, or is shorter than 3, or the password is
\* shorter than 6; the existing record of a duplicate identifier is not altered.
C9_RegisterRejects ==
    [][(/\ ret'.op = "register_user"
        /\ \/ ret'.username \in DOMAIN users
           \/ Len(ret'.username) < 3
           \/ Len(ret'.password) < 6) =>
          /\ ret'.ok = FALSE
          /\ users' = users
          /\ file' = file]_vars

\* a duplicate registration refused on a locked account
C9_Witness ==
    /\ ret.op = "register_user"
    /\ ret.ok = FALSE
    /\ ret.found /= None
    /\ ret.found[1].is_locked
    /\ users[ret.username] = ret.found[1]
    /\ Len(ret.password) >= 6

\* C10: register_user with an identifier not in the store, of length >= 3, and a
\* password of length >= 6 succeeds, adds exactly one record, unlocked, with
\* lock_until unset, failed_attempts = 0 and digest = hash(password), and
\* persists the store.
C10_RegisterCreates ==
    [][(/\ ret'.op = "register_user"
        /\ ret'.username \notin DOMAIN users
        /\ Len(ret'.username) >= 3
        /\ Len(ret'.password) >= 6) =>
          /\ ret'.ok = TRUE
          /\ DOMAIN users' = DOMAIN users \cup {ret'.username}
          /\ \A v \in DOMAIN users : users'[v] = users[v]
          /\ users'[ret'.username].username = ret'.username
          /\ users'[ret'.username].password_hash = _hash_password(ret'.password)
          /\ Cleared(users'[ret'.username])
          /\ FileHolds(file', users')]_vars

\* the shortest identifier and the shortest password are accepted
C10_Witness ==
    /\ ret.op = "register_user"
    /\ ret.ok
    /\ ret.found = None
    /\ Len(ret.username) = 3
    /\ Len(ret.password) = 6
    /\ ret.username \in DOMAIN users
    /\ Cardinality(DOMAIN users) > 1

\* C11, as stated: login on an unknown identifier returns the same success flag
\* and message as login with a wrong password on an existing unlocked account.
C11_Indistinguishable ==
    \A v \in DOMAIN users :
        (/\ LoggedIn(ret, v)
         /\ ret.found /= None
         /\ ret.found[1].is_locked = FALSE
         /\ ret.password /= registered[v]) =>
            \A u \in Usernames \ DOMAIN users : \A p \in Passwords :
                <<ret.ok, ret.message[1]>>
                    = login(users, u, p, now, lock_duration).value

\* C12: the set of identifiers changes only by a successful register_user adding
\* its identifier: no other operation creates a record, none removes one.
C12_OnlyRegisterAdds ==
    [][/\ DOMAIN users \subseteq DOMAIN users'
       /\ DOMAIN users' /= DOMAIN users =>
            /\ ret'.op = "register_user"
            /\ ret'.ok = TRUE
            /\ DOMAIN users' = DOMAIN users \cup {ret'.username}]_vars

\* login on an unknown identifier has left a store of several records as it was
C12_Witness ==
    /\ ret.op = "login"
    /\ ret.found = None
    /\ ret.username \notin DOMAIN users
    /\ Cardinality(DOMAIN users) > 1

\* C13, as stated: a locked record has lock_until set, and at the step that locked
\* it the stamped lock_until was strictly greater than the current time.
C13_LockedInFuture ==
    [][\A u \in DOMAIN users' :
          users'[u].is_locked =>
              /\ users'[u].lock_until /= None
              /\ (u \notin DOMAIN users \/ ~users[u].is_locked) =>
                    users'[u].lock_until[1] > now']_vars

\* a record of the store carries a deadline only while it is locked
DeadlineOnlyWhileLocked(us) ==
    \A u \in DOMAIN us : us[u].lock_until /= None => us[u].is_locked

\* the step stamps a deadline on record u
SetsDeadline(u) ==
    /\ users'[u].lock_until /= None
    /\ users[u].lock_until /= users'[u].lock_until

\* the step takes record u from locked to unlocked
Unlocks(u) == users[u].is_locked /\ ~users'[u].is_locked

\* C14, as stated: lock_until is set only while is_locked; only the login failure
\* that locks the record sets lock_until; every step that takes a record from
\* locked to unlocked clears lock_until and zeroes failed_attempts (read here for
\* positive lock durations only, where it already fails).
C14_AsStated ==
    [][lock_duration > 0 =>
        /\ DeadlineOnlyWhileLocked(users')
        /\ \A u \in DOMAIN users :
            /\ SetsDeadline(u) =>
                  /\ LoggedIn(ret', u) /\ ret'.ok = FALSE
                  /\ ~users[u].is_locked /\ users'[u].is_locked
            /\ Unlocks(u) =>
                  /\ users'[u].lock_until = None
                  /\ users'[u].failed_attempts = 0]_vars

\* C14, amended: as stated, except that a login with a wrong password on an
\* expired lock, which unlocks the record and then counts the failed attempt,
\* leaves failed_attempts = 1.
C14_DeadlineLifecycle ==
    [][/\ DeadlineOnlyWhileLocked(users')
       /\ \A u \in DOMAIN users :
            /\ SetsDeadline(u) =>
                  /\ LoggedIn(ret', u) /\ ret'.ok = FALSE
                  /\ ~users[u].is_locked /\ users'[u].is_locked
            /\ Unlocks(u) =>
                  /\ users'[u].lock_until = None
                  /\ users'[u].failed_attempts =
                        IF LoggedIn(ret', u) /\ ret'.password /= registered[u]
                        THEN 1 ELSE 0]_vars

\* a lock that ran out has been cleared by get_user_info
C14_Witness ==
    \E u \in DOMAIN users :
        /\ ret.op = "get_user_info" /\ ret.username = u
        /\ ret.found[1].is_locked
        /\ ret.found[1].lock_until /= None
        /\ lock_duration > 0
        /\ Cleared(users[u])

\* the failure count of every record is in 0..5, and is 5 exactly on locked records
CountWithinThreshold(us) ==
    \A u \in DOMAIN us :
        /\ us[u].failed_attempts \in 0..5
        /\ (us[u].failed_attempts = 5) = us[u].is_locked

\* C15: 0 <= failed_attempts <= 5 for every record, failed_attempts = 5 exactly
\* when the record is locked, and the count of a locked record is not incremented.
C15_CountBounded ==
    [][/\ CountWithinThreshold(users)
       /\ CountWithinThreshold(users')
       /\ \A u \in DOMAIN users :
            users'[u].failed_attempts > users[u].failed_attempts =>
                /\ ~users[u].is_locked
                /\ users'[u].failed_attempts = users[u].failed_attempts + 1]_vars

\* a record locked by a login made after the clock has advanced
C15_Witness ==
    \E u \in DOMAIN users :
        /\ users[u].is_locked
        /\ users[u].failed_attempts = 5
        /\ users[u].lock_until[1] > StartTime + lock_duration
        /\ LoggedIn(ret, u)

\* the records a backing file holds: none when it is absent or holds no JSON
StoredRecords(f) == IF f.exists /\ f.valid THEN f.data ELSE NoData

\* C16: after every operation the backing file holds the store in memory, record
\* for record.
C16_WriteThrough ==
    /\ DOMAIN StoredRecords(file) = DOMAIN users
    /\ \A u \in DOMAIN users :
        /\ StoredRecords(file)[u].password_hash = users[u].password_hash
        /\ StoredRecords(file)[u].is_locked = users[u].is_locked
        /\ StoredRecords(file)[u].lock_until = users[u].lock_until
        /\ StoredRecords(file)[u].failed_attempts = users[u].failed_attempts

\* a successful login has reset a count and written it
C16_Witness ==
    \E u \in DOMAIN users :
        /\ LoggedIn(ret, u) /\ ret.ok
        /\ ret.found[1].failed_attempts > 0
        /\ file.data[u].failed_attempts = 0
        /\ \E v \in DOMAIN users : users[v].is_locked

\* C17: save_users followed by load_users in a fresh engine on the same file
\* reproduces the identifiers and, for each, password_hash, is_locked, lock_until
\* and failed_attempts.
C17_RoundTrip ==
    [][ret'.op = "restart" =>
        /\ DOMAIN users' = DOMAIN users
        /\ \A u \in DOMAIN users :
            /\ users'[u].username = u
            /\ users'[u].password_hash = users[u].password_hash
            /\ users'[u].is_locked = users[u].is_locked
            /\ users'[u].lock_until = users[u].lock_until
            /\ users'[u].failed_attempts = users[u].failed_attempts]_vars

\* a fresh engine has loaded a store with a locked record and a counted failure
C17_Witness ==
    /\ ret.op = "restart"
    /\ \E u \in DOMAIN users : users[u].is_locked /\ users[u].lock_until /= None
    /\ \E u \in DOMAIN users : users[u].failed_attempts \in 1..4

\* C19: a lock survives a restart: a new engine on the same file keeps is_locked,
\* lock_until and failed_attempts of every record; login on it with any password
\* before lock_until fails with the lock message, and a wrong password on an
\* unlocked record continues the count it had before the restart.
C19_LockSurvivesRestart ==
    [][/\ ret'.op = "restart" =>
            \A u \in DOMAIN users :
                /\ u \in DOMAIN users'
                /\ users'[u].is_locked = users[u].is_locked
                /\ users'[u].lock_until = users[u].lock_until
                /\ users'[u].failed_attempts = users[u].failed_attempts
       /\ \A u \in DOMAIN users :
            (ret.op = "restart" /\ LoggedIn(ret', u)) =>
                /\ LockedAt(users, u, now) =>
                      /\ ret'.ok = FALSE
                      /\ ret'.message[1][1] = "locked_retry_in"
                /\ (~users[u].is_locked /\ ret'.password /= registered[u]) =>
                      users'[u].failed_attempts = users[u].failed_attempts + 1]_vars

\* a fresh engine has loaded a record locked by the 5th failed login, lock pending
C19_Witness ==
    \E u \in DOMAIN users :
        /\ ret.op = "restart"
        /\ streak[u] = 5
        /\ LockedAt(users, u, now)
        /\ lock_duration > 0

\* C18, as stated: construction never fails because of the backing data; on a
\* file that is present but invalid the engine starts with an empty store, and on
\* an absent file with the default accounts, each unlocked with failed_attempts =
\* 0, written to the file.
C18_ConstructionTolerant ==
    [][ret'.op = "construct" =>
        /\ ret'.ok = TRUE
        /\ (file.exists /\ ~file.valid) => users' = NoData
        /\ ~file.exists =>
              /\ DOMAIN users' = DefaultUsernames
              /\ \A u \in DOMAIN users' : Cleared(users'[u])
              /\ FileHolds(file', users')]_vars

\* C20, as stated: a reader that loads the backing file while save_users runs
\* sees the complete previous content or the complete new content.
C20_NoPartialRead ==
    ret.op = "load_users" =>
        IF writer = None
        THEN ret.info[1].content = file
        ELSE ret.info[1].content \in {writer[1].old, writer[1].new}

\* the last operation was op on identifier u
Called(r, op, u) == r.op = op /\ r.username = u

\* C23: get_user_info returns none for an unknown identifier and leaves the store
\* alone; for a known one it returns the identifier, the lock status and message
\* check_lock_status yields at that moment and the failed_attempts of the record
\* after that evaluation, so an expired lock is reported unlocked with
\* failed_attempts = 0 and the record is unlocked.
C23_InfoAfterEvaluation ==
    [][\A u \in Usernames :
          Called(ret', "get_user_info", u) =>
              IF u \notin DOMAIN users
              THEN ret'.info = None /\ users' = users /\ file' = file
              ELSE LET c == check_lock_status(users, u, now) IN
                   /\ ret'.info /= None
                   /\ ret'.info[1].username = u
                   /\ ret'.info[1].is_locked = c.value[1]
                   /\ ret'.info[1].lock_message = c.value[2]
                   /\ ret'.info[1].failed_attempts = users'[u].failed_attempts
                   /\ users' = c.users
                   /\ ExpiredAt(users, u, now) =>
                         /\ ret'.info[1].is_locked = FALSE
                         /\ ret'.info[1].failed_attempts = 0
                         /\ Cleared(users'[u])]_vars

\* get_user_info has found a lock that ran out and reported the account unlocked
C23_Witness ==
    \E u \in DOMAIN users :
        /\ Called(ret, "get_user_info", u)
        /\ ret.found[1].is_locked
        /\ ret.found[1].failed_attempts = 5
        /\ ret.info[1].is_locked = FALSE
        /\ ret.info[1].failed_attempts = 0
        /\ lock_duration > 0

\* the operations that evaluate the lock of the identifier they are called on
Observers == {"check_lock_status", "login", "get_user_info"}

\* C24: the passage of time changes no record; a locked record whose lock_until
\* has passed keeps is_locked, lock_until and failed_attempts in memory and in the
\* file until check_lock_status, login or get_user_info is called on its
\* identifier, and that call unlocks it.  (unlock_account on the identifier, which
\* clears any record, is not a passage of time and is left to C7.)
C24_LazyExpiry ==
    [][/\ ret'.op = "tick" => (users' = users /\ file' = file)
       /\ \A u \in DOMAIN users :
            ExpiredAt(users, u, now) =>
                IF ret'.op \in Observers /\ ret'.username = u
                THEN /\ users'[u].is_locked = FALSE
                     /\ StoredRecords(file')[u].is_locked = FALSE
                ELSE IF Called(ret', "unlock_account", u)
                     THEN TRUE
                     ELSE /\ users'[u] = users[u]
                          /\ StoredRecords(file')[u] = StoredRecords(file)[u]]_vars

\* time has passed beyond a deadline and the record is still locked
C24_Witness ==
    \E u \in DOMAIN users :
        /\ ret.op = "tick"
        /\ users[u].is_locked
        /\ users[u].lock_until /= None
        /\ users[u].lock_until[1] < now
        /\ users[u].failed_attempts = 5
        /\ file.data[u].is_locked
        /\ lock_duration > 0

\* C26: check_lock_status reports locked exactly when the identifier exists, its
\* record has is_locked, lock_until is set and the time is strictly before
\* lock_until; at now = lock_until the lock has expired; on an unknown identifier
\* or an unlocked record it returns (false, none) and changes neither the store
\* nor the file.
C26_LockedExactlyWhenPending ==
    [][\A u \in Usernames :
          Called(ret', "check_lock_status", u) =>
              /\ ret'.ok = (/\ u \in DOMAIN users
                            /\ users[u].is_locked
                            /\ users[u].lock_until /= None
                            /\ now < users[u].lock_until[1])
              /\ (u \in DOMAIN users /\ users[u].is_locked
                    /\ users[u].lock_until = Some(now)) =>
                     (ret'.ok = FALSE /\ users'[u].is_locked = FALSE)
              /\ (u \notin DOMAIN users \/ ~users[u].is_locked) =>
                     /\ ret'.ok = FALSE
                     /\ ret'.message = None
                     /\ users' = users
                     /\ file' = file]_vars

\* check_lock_status was called at the very moment the lock ran out
C26_Witness ==
    \E u \in DOMAIN users :
        /\ Called(ret, "check_lock_status", u)
        /\ ret.found[1].is_locked
        /\ ret.found[1].lock_until = Some(now)
        /\ ret.ok = FALSE
        /\ lock_duration > 0

\* C27, as stated: the message of the login that triggers the lock states the
\* lock duration the engine was configured with (read here for positive
\* durations only, where it already fails).
C27_MessageStatesDuration ==
    (/\ ret.op = "login"
     /\ lock_duration > 0
     /\ ret.message[1][1] = "too_many_failures_locked_minutes") =>
        ret.message[1][2] * SecondsPerMinute = lock_duration

\* C28: a login while the account is locked and the lock has not run out changes
\* neither the record nor the file, whatever the password and however often.
C28_LockedLoginChangesNothing ==
    [][\A u \in Usernames :
          (LockedAt(users, u, now) /\ LoggedIn(ret', u)) =>
              /\ users' = users
              /\ file' = file]_vars

\* a wrong password was tried on a locked account, beyond the five that locked it
C28_Witness ==
    \E u \in DOMAIN users :
        /\ WrongLogin(u)
        /\ streak[u] = Threshold + 1
        /\ LockedAt(users, u, now)
        /\ ret.found = Some(users[u])
        /\ users[u].failed_attempts = 5

\* C29: for an account locked with a positive lock duration, once the time is at
\* or after lock_until the next login with the account's password succeeds
\* without an unlock_account call, and the next login with a wrong password is the
\* first failure of a new cycle: failed_attempts = 1 and 4 attempts remaining.
C29_LockIsTemporary ==
    [][\A u \in Usernames :
          (lock_duration > 0 /\ ExpiredAt(users, u, now) /\ LoggedIn(ret', u)) =>
              IF ret'.password = registered[u]
              THEN /\ ret'.ok = TRUE
                   /\ Cleared(users'[u])
              ELSE /\ ret'.ok = FALSE
                   /\ users'[u].is_locked = FALSE
                   /\ users'[u].failed_attempts = 1
                   /\ ret'.message = Some(MsgRemaining(4))]_vars

\* the account's password was accepted at the very moment the lock ran out
C29_Witness ==
    \E u \in DOMAIN users :
        /\ LoggedIn(ret, u) /\ ret.ok
        /\ ret.found[1].is_locked
        /\ ret.found[1].lock_until = Some(now)
        /\ ret.found[1].failed_attempts = 5
        /\ lock_duration > 0

\* the operations that change records
Mutating == {"register_user", "login", "check_lock_status", "unlock_account"}

\* C22, as stated: on an unwritable medium a mutating operation does not report
\* success when its change could not be written, and the store in memory holds
\* no change that the file lacks.
C22_NoDroppedMutation ==
    ret.op \in Mutating =>
        /\ ret.message = Some(SaveError) => ret.ok = FALSE
        /\ DOMAIN StoredRecords(file) = DOMAIN users
        /\ \A u \in DOMAIN users :
            /\ StoredRecords(file)[u].password_hash = users[u].password_hash
            /\ StoredRecords(file)[u].is_locked = users[u].is_locked
            /\ StoredRecords(file)[u].lock_until = users[u].lock_until
            /\ StoredRecords(file)[u].failed_attempts = users[u].failed_attempts

\* the store of an engine in which u has just registered with password
FreshStore(u, password) == register_user(NoData, u, password).users

\* C25: a record loaded from an entry of the file without is_locked, lock_until
\* or failed_attempts has is_locked = false, lock_until = none, failed_attempts =
\* 0 for each absent field; with all three absent it is the record of a freshly
\* registered account, and login, check_lock_status and get_user_info act on it
\* as on that one.
C25_MissingFieldsDefault ==
    (ret.op = "construct" /\ ret.ok /\ file.exists /\ file.valid) =>
        \A u \in DOMAIN file.data :
            LET e == file.data[u] IN
            /\ "is_locked" \notin DOMAIN e => users[u].is_locked = FALSE
            /\ "lock_until" \notin DOMAIN e => users[u].lock_until = None
            /\ "failed_attempts" \notin DOMAIN e => users[u].failed_attempts = 0
            /\ DOMAIN e = {"password_hash"} =>
                  /\ users[u] = FreshStore(u, "secret")[u]
                  /\ check_lock_status(users, u, now)
                        = check_lock_status(FreshStore(u, "secret"), u, now)
                  /\ get_user_info(users, u, now)
                        = get_user_info(FreshStore(u, "secret"), u, now)
                  /\ \A p \in Passwords :
                        login(users, u, p, now, lock_duration)
                            = login(FreshStore(u, "secret"), u, p, now, lock_duration)

\* an engine was constructed on a file whose entry holds the digest alone
C25_Witness ==
    /\ ret.op = "construct" /\ ret.ok
    /\ file.exists /\ file.valid
    /\ \E u \in DOMAIN file.data :
        /\ DOMAIN file.data[u] = {"password_hash"}
        /\ Cleared(users[u])

\* the store a call leaves when it runs alone on store us
Alone(call, us) ==
    IF call.op = "login"
    THEN login(us, Raced, call.password, now, lock_duration).users
    ELSE unlock_account(us, Raced).users

\* the call of thread t is a login with a password other than the account's
WrongLoginCall(t) ==
    threads[t].op = "login" /\ threads[t].password /= RacedPassword

\* C21, as stated: no update is lost.  When two wrong-password logins on one
\* unlocked account have both returned, failed_attempts is 2 higher than at the
\* start, or the account is locked at the threshold; when a login failure that
\* reaches the threshold and an unlock_account have both returned, the store is
\* one that the two calls leave in one of the two serial orders (read here for
\* positive lock durations only, where it already fails).
C21_NoLostUpdate ==
    (lock_duration > 0 /\ \A t \in Threads : threads[t].pc = "done") =>
        LET origin == threads[1].origin IN
        /\ (WrongLoginCall(1) /\ WrongLoginCall(2)) =>
              \/ users[Raced].failed_attempts = origin[Raced].failed_attempts + 2
              \/ users[Raced].is_locked /\ users[Raced].failed_attempts = Threshold
        /\ (\E t \in Threads :
                /\ WrongLoginCall(t)
                /\ origin[Raced].failed_attempts = Threshold - 1
                /\ threads[3 - t].op = "unlock_account") =>
              users \in {Alone(threads[2], Alone(threads[1], origin)),
                         Alone(threads[1], Alone(threads[2], origin))}

====
